---- MODULE Spec2Model ----
(***************************************************************************)
(* Model of the Shepherd policy-trigger export jobs:                        *)
(*   scripts/create_csv.py              full export (Athena query)          *)
(*   scripts/create_csv_incremental.py  incremental update of the export    *)
(*                                                                          *)
(* Wall-clock values are epoch seconds, as in the code.  A value the code   *)
(* keeps in microseconds (start_time, prelim_min_hour,                      *)
(* increm_min_hour_micro) is the record [s |-> seconds, u |-> microsecond   *)
(* remainder]: it stands for s * 1000000 + u, which does not fit TLC's      *)
(* 32-bit integers for real epochs.                                         *)
(***************************************************************************)
EXTENDS Integers, Sequences, FiniteSets, TLC

VARIABLES
    now,                  \* wall clock, epoch seconds
    ticks,                \* number of clock advances so far (bounded)
    table,                \* rows of the source Athena table (DNS events)
    cfg,                  \* job parameters of the scheduled incremental job
    csv,                  \* latest .csv in the input bucket (get_latest_file)
    pc,                   \* position of the incremental job
    err,                  \* exception that ended the incremental job, or "none"
    START_TIME,           \* create_csv_incremental.py START_TIME of the run
    input_csv,            \* the input CSV chosen by get_latest_file (input_csv = its rows)
    prelim_min_hour,      \* retention floor, microseconds
    increm_min_hour_sec,  \* watermark used in the pushdown predicate, seconds
    csv_hits_in_range,    \* retained rows of the input CSV
    new_hits,             \* rows freshly queried from the source table
    write_df,             \* rows written by the run
    argv,                 \* job parameters as given on the command line
    args,                 \* what get_args returned
    jpc,                  \* position of the job started with argv
    jerr,                 \* exception that ended that job, or "none"
    calls,                \* requests sent to AWS services so far, in order
    pushdown,             \* create_csv.py pushdown (the time frame of the query)
    qpc,                  \* position inside execute_query
    engine,               \* the Athena query execution and its result file
    polled,               \* the state the last get_query_execution returned
    start_time,           \* execute_query start_time
    outcome,              \* how execute_query ended
    policyType,           \* args.policyType: the trigger column of the run
    glue_table,           \* the source table in the Glue catalog
    tmp_schema,           \* what get_table_schema returned
    schema,               \* the select expressions built from tmp_schema
    spc,                  \* position of the run between lines 577 and 627
    serr,                 \* exception that ended that part, or "none"
    scanned,              \* the rows of the source table were read
    hkey,                 \* --salt, --ordinal, --subscriber, --receiver as given
    hopts,                \* other options of the command line
    uniq,                 \* the subdirectory name each script computed
    bucket,               \* the objects of the S3 bucket: key, LastModified, origin
    s3clock,              \* the time S3 stamps on the next object written
    opts,                 \* the options the incremental runs were started with
    rpc,                  \* position of each incremental run
    rerr,                 \* exception that ended each run, or "none"
    rin,                  \* input_csv of each run: what get_latest_file returned
    seen,                 \* the .csv objects under the input prefix at that call
    picked,               \* candidate_fn of each run's rename_file
    overlapped,           \* two runs have been under way at the same time
    dataType,             \* loadpartition.py: params["dataType"]
    s3parts,              \* the hour-level folders of the data bucket
    catalog,              \* the partitions of the table in the catalog
    lpc,                  \* position of the loadpartition job
    lprun,                \* how many times the job has been started
    show,                 \* the SHOW PARTITIONS execution and its result
    state,                \* athena_to_s3: the state the loop last read
    waited,               \* seconds athena_to_s3 has slept in this run
    tmpFolder,            \* the files in the query-result folder
    alters,               \* the ALTER TABLE executions, one per run
    lplog,                \* per finished run: athenaList and the ALTER issued
    report                \* what the job printed last: SUCCESS or FAILURE

mergeVars == << now, ticks, table, cfg, csv, pc, err, START_TIME, input_csv,
                prelim_min_hour, increm_min_hour_sec, csv_hits_in_range,
                new_hits, write_df >>

argVars == << argv, args, jpc, jerr, calls, pushdown >>

queryVars == << qpc, engine, polled, start_time, outcome >>

schemaVars == << policyType, glue_table, tmp_schema, schema, spc, serr, scanned >>

hashVars == << hkey, hopts, uniq >>

bucketVars == << bucket, s3clock, opts, rpc, rerr, rin, seen, picked, overlapped >>

loadVars == << dataType, s3parts, catalog, lpc, lprun, show, state, waited,
              tmpFolder, alters, lplog, report >>

extVars == << schemaVars, hashVars, bucketVars, loadVars >>

vars == << mergeVars, argVars, queryVars, extVars >>

runVars == << START_TIME, input_csv, prelim_min_hour, increm_min_hour_sec,
              csv_hits_in_range, new_hits, write_df >>

----------------------------------------------------------------------------
(* Bounds of the model *)

MaxTicks == 2
MaxEvents == 2
MaxRetries == 1
MaxCols == 2
PageSize == 2
MaxLoadRuns == 2
MaxOvertime == 2

(* Program constants *)

HOURLY_ALIGNER == 3600
DAILY_ALIGNER == HOURLY_ALIGNER * 24

(* 2021-02-08 22:20:00 UTC, so that hour and day boundaries are crossed *)
T0 == (18666 * DAILY_ALIGNER) + (22 * HOURLY_ALIGNER) + 1200

TickSteps == {HOURLY_ALIGNER, DAILY_ALIGNER}

(* --maxHoursAgo values of the runs; the lookback is 1 hour with --hourly  *)
(* and 24 hours without, so the values lie on both sides of each lookback  *)
MaxHoursAgoChoices == {2, 26}

(* policy names: p1 and p2 are targeted by --policies, p3 is not *)
PolicyOrder == << "p1", "p2", "p3" >>
PolicyStrings == {"p1", "p2"}
EventPolicies == { {"p1", "p2"}, {"p3"} }

(* microsecond remainder of the event timestamps *)
EventMicros == 1000000 \div 4

----------------------------------------------------------------------------
(* Microsecond arithmetic *)

ToMicro(sec) == [s |-> sec, u |-> 0]

MicroToSec(m) == m.s

MicroLT(a, b) == (a.s < b.s) \/ (a.s = b.s /\ a.u < b.u)

MicroGE(a, b) == ~MicroLT(a, b)

Max(a, b) == IF a >= b THEN a ELSE b

Range(s) == { s[i] : i \in 1..Len(s) }

----------------------------------------------------------------------------
(* Source table *)

(* the hour partition column: hourly epoch of the event *)
Hour(e) == (e.start_time.s \div HOURLY_ALIGNER) * HOURLY_ALIGNER

EventById(events, i) == CHOOSE e \in events : e.id = i

(* explode(policies) as policy: one row per element of the trigger column *)
ExplodeEvent(e) ==
    LET pols == SelectSeq(PolicyOrder, LAMBDA p : p \in e.policies)
    IN  [ i \in 1..Len(pols) |->
            [start_time |-> e.start_time, id |-> e.id, policy |-> pols[i]] ]

RECURSIVE ExplodeFrom(_, _, _)
ExplodeFrom(events, i, n) ==
    IF i > n THEN << >>
    ELSE (IF \E e \in events : e.id = i
          THEN ExplodeEvent(EventById(events, i))
          ELSE << >>) \o ExplodeFrom(events, i + 1, n)

(* mutant: the exploded rows are not filtered by the targeted policies *)
PolicyHits_Unfiltered(events) == ExplodeFrom(events, 1, Cardinality(table))

(* select ... explode ... where policy in (pol_arr) over the rows that     *)
(* pass the pushdown predicate                                              *)
PolicyHits(events) ==
    SelectSeq(ExplodeFrom(events, 1, Cardinality(table)),
              LAMBDA r : r.policy \in PolicyStrings)

----------------------------------------------------------------------------
(* Time windows *)

Aligner(fullDays) == IF fullDays THEN DAILY_ALIGNER ELSE HOURLY_ALIGNER

(* mutant: the floor is not aligned to the hour or the day *)
MinHour_Unaligned(start, maxHoursAgo, fullDays) == start - (3600 * maxHoursAgo)

(* ((START_TIME - (3600 * maxHoursAgo)) // aligner) * aligner *)
MinHour(start, maxHoursAgo, fullDays) ==
    ((start - (3600 * maxHoursAgo)) \div Aligner(fullDays)) * Aligner(fullDays)

(* mutant: the lookback is counted from the run time, not from the start  *)
(* of the current hour                                                     *)
StandardMinHour_Unaligned(start, hourly) ==
    start - (3600 * (IF hourly THEN 1 ELSE 24))

(* (START_TIME - (START_TIME % 3600)) - (3600 * hours_ago) *)
StandardMinHour(start, hourly) ==
    (start - (start % 3600)) - (3600 * (IF hourly THEN 1 ELSE 24))

(* max(start_time) of the input rows; only used on a non-empty input.
   The source selects cast(start_time as bigint) under the name ts and
   then aggregates on the name start_time; the operator is the maximum
   of that column, the value line 563 divides by 1000000. *)
LastSeenEpoch(rows) ==
    LET r == CHOOSE x \in Range(rows) :
                 \A y \in Range(rows) : MicroGE(x.start_time, y.start_time)
    IN  r.start_time

(* mutant: the newest event time is used without flooring it *)
LastSeenHour_NoFloor(rows, fullDays) == MicroToSec(LastSeenEpoch(rows))

(* ((last_seen_epoch // 1000000) // aligner) * aligner *)
LastSeenHour(rows, fullDays) ==
    (MicroToSec(LastSeenEpoch(rows)) \div Aligner(fullDays)) * Aligner(fullDays)

(* the watermark with --nonStrict *)
NonStrictMinHour(rows, fullDays, standard) ==
    Max(LastSeenHour(rows, fullDays), standard)

----------------------------------------------------------------------------
(* Row selection *)

CsvPrelim_NoFloor(rows, floorMicro) == rows

(* cast(start_time as bigint) >= prelim_min_hour *)
CsvPrelim(rows, floorMicro) ==
    SelectSeq(rows, LAMBDA r : MicroGE(r.start_time, floorMicro))

(* mutant: the rows of the watermark hour are retained as well *)
CsvHitsInRange_KeepsWatermarkHour(rows, minHourSec) ==
    SelectSeq(rows, LAMBDA r :
        MicroLT(r.start_time, ToMicro(minHourSec + HOURLY_ALIGNER)))

(* cast(start_time as bigint) < increm_min_hour_micro *)
CsvHitsInRange(rows, minHourSec) ==
    SelectSeq(rows, LAMBDA r : MicroLT(r.start_time, ToMicro(minHourSec)))

(* mutant: the query starts one hourly partition before the bound *)
Pushdown_OneHourEarlier(events, minHourSec) ==
    { e \in events : Hour(e) >= minHourSec - HOURLY_ALIGNER }

(* mutant: the partition of the bound itself is not queried *)
Pushdown_Exclusive(events, minHourSec) ==
    { e \in events : Hour(e) > minHourSec }

(* push_down_predicate "(hour >= increm_min_hour_sec)" *)
Pushdown(events, minHourSec) == { e \in events : Hour(e) >= minHourSec }

(* the decimal digits of a natural number, as str() and the cast to string *)
(* of a bigint write them                                                   *)
RECURSIVE Digits(_)
Digits(n) == IF n < 10 THEN << n >> ELSE Digits(n \div 10) \o << n % 10 >>

RECURSIVE ZeroPad(_, _)
ZeroPad(d, width) == IF Len(d) >= width THEN d ELSE ZeroPad(<< 0 >> \o d, width)

(* start_time as the string column the frames carry: the number of         *)
(* microseconds in decimal (line 609, cast(start_time as string))           *)
StartTimeString(m) ==
    IF m.s = 0 THEN Digits(m.u) ELSE Digits(m.s) \o ZeroPad(Digits(m.u), 6)

(* the order of two strings: by the first character that differs, a proper *)
(* prefix first                                                             *)
RECURSIVE StringLT(_, _)
StringLT(a, b) ==
    IF b = << >> THEN FALSE
    ELSE IF a = << >> THEN TRUE
    ELSE IF Head(a) # Head(b) THEN Head(a) < Head(b)
    ELSE StringLT(Tail(a), Tail(b))

(* orderBy("start_time") on the string column start_time (line 630) *)
RECURSIVE InsertRow(_, _)
InsertRow(r, s) ==
    IF s = << >> THEN << r >>
    ELSE IF StringLT(StartTimeString(r.start_time),
                     StartTimeString(Head(s).start_time)) THEN << r >> \o s
    ELSE << Head(s) >> \o InsertRow(r, Tail(s))

OrderBy_Unsorted(s) == s

RECURSIVE OrderBy(_)
OrderBy(s) ==
    IF s = << >> THEN << >>
    ELSE InsertRow(s[Len(s)], OrderBy(SubSeq(s, 1, Len(s) - 1)))

----------------------------------------------------------------------------
(* Files *)

NoFile == [exists |-> FALSE, rows |-> << >>, wtime |-> 0, kind |-> "none",
           minHour |-> 0, nsrc |-> 0]

(* kind, minHour and nsrc are history: which job wrote the file, the floor *)
(* of its window and the number of source rows that existed at the write   *)
File(rows, kind, minHour) ==
    [exists |-> TRUE, rows |-> rows, wtime |-> now, kind |-> kind,
     minHour |-> minHour, nsrc |-> Cardinality(table)]

NoMicro == ToMicro(0)

----------------------------------------------------------------------------
(* Job parameters *)

(* an optional parameter: not on the command line, or its text *)
Unset == [given |-> FALSE, text |-> ""]

Raw(t) == [given |-> TRUE, text |-> t]

(* args.get(name) is truthy: the parameter is there and is not empty *)
Truthy(p) == p.given /\ p.text # ""

(* int(text) succeeds on these texts *)
IntTexts == {"-1", "0", "1", "2", "3", "5"}

IsInt(t) == t \in IntTexts

IntOf(t) ==
    CASE t = "-1" -> 0 - 1
      [] t = "0" -> 0
      [] t = "1" -> 1
      [] t = "2" -> 2
      [] t = "3" -> 3
      [] t = "5" -> 5

(* a parsed integer parameter: None, or the integer *)
NoneInt == [given |-> FALSE, val |-> 0]

SomeInt(n) == [given |-> TRUE, val |-> n]

(* DEFAULTS["timeout_sec"] *)
DefaultTimeoutSec == 1800

(* a day YYYYMMDD is the number that its eight digits spell *)
YearOf(n) == n \div 10000

MonthOf(n) == (n \div 100) % 100

DayOf(n) == n % 100

IsLeap(y) == (y % 4 = 0 /\ y % 100 # 0) \/ (y % 400 = 0)

DaysInMonth(y, m) ==
    IF m = 2 THEN (IF IsLeap(y) THEN 29 ELSE 28)
    ELSE IF m \in {4, 6, 9, 11} THEN 30 ELSE 31

(* datetime.strptime(text, "%Y%m%d") succeeds *)
ValidDate(n) ==
    /\ YearOf(n) \in 1..9999
    /\ MonthOf(n) \in 1..12
    /\ DayOf(n) \in 1..DaysInMonth(YearOf(n), MonthOf(n))

(* days from 1970-01-01 to the day y-m-d of the proleptic Gregorian       *)
(* calendar: (datetime(y, m, d) - datetime.utcfromtimestamp(0)).days       *)
DaysFromCivil(y, m, d) ==
    LET yy == IF m <= 2 THEN y - 1 ELSE y
        era == yy \div 400
        yoe == yy - (era * 400)
        mp == IF m > 2 THEN m - 3 ELSE m + 9
        doy == (((153 * mp) + 2) \div 5) + (d - 1)
        doe == (yoe * 365) + (yoe \div 4) - (yoe \div 100) + doy
    IN  (era * 146097) + doe - 719468

(* datetime.strptime(text, "%Y%m%d"), as a day number *)
Strptime(n) == DaysFromCivil(YearOf(n), MonthOf(n), DayOf(n))

NoArgv == [script |-> "none", maxHoursAgo |-> Unset, dayRange |-> << >>,
           fullDays |-> FALSE, timeout_sec |-> Unset]

NoArgs == [exc |-> "none", maxHoursAgo |-> NoneInt, dayRange |-> << >>,
           startDt |-> 0, endDt |-> 0, timeout_sec |-> 0, warned |-> FALSE]

NoPushdown == [kind |-> "unset", min |-> 0, max |-> 0]

NoEngine == [state |-> "none", retries |-> 0, output |-> FALSE]

NoOutcome == [kind |-> "none", stage |-> "none", job |-> "none"]

(* execute_query is not running *)
NoQuery ==
    /\ qpc = "none"
    /\ engine = NoEngine
    /\ polled = "none"
    /\ start_time = 0
    /\ outcome = NoOutcome

(* no job was started from a command line *)
NoJob ==
    /\ argv = NoArgv
    /\ args = NoArgs
    /\ jpc = "none"
    /\ jerr = "none"
    /\ calls = << >>
    /\ pushdown = NoPushdown
    /\ NoQuery

(* lines 577-627 of the incremental job are not being run *)
NoSchema ==
    /\ policyType = "none"
    /\ glue_table = [cols |-> << >>, p_cols |-> << >>]
    /\ tmp_schema = << >>
    /\ schema = << >>
    /\ spc = "none"
    /\ serr = "none"
    /\ scanned = FALSE

(* no script has been given an identity to hash *)
NoHash ==
    /\ hkey = [salt |-> "", ordinal |-> "", subscriber |-> "", receiver |-> ""]
    /\ hopts = [outputDir |-> "", verbose |-> FALSE]
    /\ uniq = << >>

(* no incremental run works on the bucket *)
NoBucket ==
    /\ bucket = {}
    /\ s3clock = 0
    /\ opts = << >>
    /\ rpc = << >>
    /\ rerr = << >>
    /\ rin = << >>
    /\ seen = << >>
    /\ picked = << >>
    /\ overlapped = FALSE

(* loadpartition.py is not run *)
NoLoad ==
    /\ dataType = "none"
    /\ s3parts = {}
    /\ catalog = {}
    /\ lpc = "none"
    /\ lprun = 0
    /\ show = [state |-> "none", result |-> {}]
    /\ state = "none"
    /\ waited = 0
    /\ tmpFolder = {}
    /\ alters = << >>
    /\ lplog = << >>
    /\ report = "none"

NoExt == NoSchema /\ NoHash /\ NoBucket /\ NoLoad

----------------------------------------------------------------------------
(* the variables of a job that is not running *)
NoRun ==
    /\ pc' = "idle"
    /\ err' = "none"
    /\ START_TIME' = 0
    /\ input_csv' = NoFile
    /\ prelim_min_hour' = NoMicro
    /\ increm_min_hour_sec' = 0
    /\ csv_hits_in_range' = << >>
    /\ new_hits' = << >>
    /\ write_df' = << >>

Init ==
    /\ now = T0
    /\ ticks = 0
    /\ table = {}
    /\ cfg \in [maxHoursAgo : MaxHoursAgoChoices, fullDays : BOOLEAN,
                hourly : BOOLEAN, nonStrict : BOOLEAN]
    /\ csv = NoFile
    /\ pc = "idle"
    /\ err = "none"
    /\ START_TIME = 0
    /\ input_csv = NoFile
    /\ prelim_min_hour = NoMicro
    /\ increm_min_hour_sec = 0
    /\ csv_hits_in_range = << >>
    /\ new_hits = << >>
    /\ write_df = << >>
    /\ NoJob
    /\ NoExt

(* no export has been made and no merge is running *)
NoMerge ==
    /\ now = T0
    /\ ticks = 0
    /\ table = {}
    /\ cfg = [maxHoursAgo |-> 2, fullDays |-> FALSE, hourly |-> TRUE,
              nonStrict |-> FALSE]
    /\ csv = NoFile
    /\ pc = "idle"
    /\ err = "none"
    /\ START_TIME = 0
    /\ input_csv = NoFile
    /\ prelim_min_hour = NoMicro
    /\ increm_min_hour_sec = 0
    /\ csv_hits_in_range = << >>
    /\ new_hits = << >>
    /\ write_df = << >>

(* the clock advances; a scheduled run is skipped or delayed when no run   *)
(* happens in between.  The process of an earlier run has exited.           *)
Tick ==
    /\ ticks < MaxTicks
    /\ \E d \in TickSteps : now' = now + d
    /\ ticks' = ticks + 1
    /\ NoRun
    /\ UNCHANGED << table, cfg, csv, argVars, queryVars >>
    /\ UNCHANGED extVars

(* a DNS event is logged into the partition of the current hour *)
Ingest ==
    /\ Cardinality(table) < MaxEvents
    /\ \E pols \in EventPolicies :
         table' = table \cup
             { [id |-> Cardinality(table) + 1,
                start_time |-> [s |-> now, u |-> EventMicros],
                policies |-> pols] }
    /\ NoRun
    /\ UNCHANGED << now, ticks, cfg, csv, argVars, queryVars >>
    /\ UNCHANGED extVars

(* create_csv.py main with --maxHoursAgo: the base export *)
FullExport ==
    /\ ~csv.exists
    /\ \E mha \in MaxHoursAgoChoices :
         LET min_hour == MinHour(now, mha, cfg.fullDays)
         IN  csv' = File(PolicyHits(Pushdown(table, min_hour)), "full", min_hour)
    /\ UNCHANGED << now, ticks, table, cfg, pc, err, runVars, argVars, queryVars >>
    /\ UNCHANGED extVars

----------------------------------------------------------------------------
(* create_csv_incremental.py main *)

(* the retention floor and the watermark of a run started at `start` on    *)
(* the input rows `rows` (lines 512-570)                                    *)
Plan(start, rows) ==
    LET standard == StandardMinHour(start, cfg.hourly)
    IN  [ prelim_min_hour |->
              ToMicro(MinHour(start, cfg.maxHoursAgo, cfg.fullDays)),
          \* max() of no rows is None, and None // 1000000 raises TypeError
          err |-> IF cfg.nonStrict /\ rows = << >> THEN "TypeError" ELSE "none",
          increm_min_hour_sec |->
              IF cfg.nonStrict /\ rows # << >>
              THEN NonStrictMinHour(rows, cfg.fullDays, standard)
              ELSE standard ]

(* lines 482-494: there is no input CSV; get_latest_file takes max() of a *)
(* listing page without .csv keys (line 297), which raises ValueError      *)
IncNoInput ==
    /\ pc \in {"idle", "done", "failed"}
    /\ ~csv.exists
    /\ pc' = "failed"
    /\ err' = "ValueError"
    /\ START_TIME' = now
    /\ input_csv' = NoFile
    /\ prelim_min_hour' = NoMicro
    /\ increm_min_hour_sec' = 0
    /\ csv_hits_in_range' = << >>
    /\ new_hits' = << >>
    /\ write_df' = << >>
    /\ UNCHANGED << now, ticks, table, cfg, csv, argVars, queryVars >>
    /\ UNCHANGED extVars

(* lines 482-637: read the input CSV, compute the retention floor and the  *)
(* watermark, retain, query, union, sort and write                          *)
IncRun ==
    /\ pc \in {"idle", "done", "failed"}
    /\ csv.exists
    /\ LET plan == Plan(now, csv.rows)
           kept == CsvHitsInRange(CsvPrelim(csv.rows, plan.prelim_min_hour),
                                  plan.increm_min_hour_sec)
           fresh == PolicyHits(Pushdown(table, plan.increm_min_hour_sec))
           out == OrderBy(fresh \o kept)
       IN  /\ START_TIME' = now
           /\ input_csv' = csv
           /\ prelim_min_hour' = plan.prelim_min_hour
           /\ increm_min_hour_sec' = plan.increm_min_hour_sec
           /\ err' = plan.err
           /\ IF plan.err # "none"
              THEN /\ pc' = "failed"
                   /\ csv_hits_in_range' = << >>
                   /\ new_hits' = << >>
                   /\ write_df' = << >>
                   /\ csv' = csv
              ELSE /\ pc' = "done"
                   /\ csv_hits_in_range' = kept
                   /\ new_hits' = fresh
                   /\ write_df' = out
                   /\ csv' = File(out, "incremental",
                                  MicroToSec(plan.prelim_min_hour))
    /\ UNCHANGED << now, ticks, table, cfg, argVars, queryVars >>
    /\ UNCHANGED extVars

(* the run fails after planning and before it writes (a Spark, catalog or  *)
(* storage failure): nothing is written                                     *)
IncFail ==
    /\ pc \in {"idle", "done", "failed"}
    /\ csv.exists
    /\ LET plan == Plan(now, csv.rows)
       IN  /\ START_TIME' = now
           /\ input_csv' = csv
           /\ prelim_min_hour' = plan.prelim_min_hour
           /\ increm_min_hour_sec' = plan.increm_min_hour_sec
           /\ err' = IF plan.err # "none" THEN plan.err ELSE "Exception"
    /\ pc' = "failed"
    /\ csv_hits_in_range' = << >>
    /\ new_hits' = << >>
    /\ write_df' = << >>
    /\ UNCHANGED << now, ticks, table, cfg, csv, argVars, queryVars >>
    /\ UNCHANGED extVars

Next == Tick \/ Ingest \/ FullExport \/ IncNoInput \/ IncRun \/ IncFail

Spec == Init /\ [][Next]_vars

----------------------------------------------------------------------------
(* One run of the incremental job on a given input: the run time, the      *)
(* newest row of the input CSV and the parameters are drawn from sets that *)
(* contain the documented examples (job started 2021-02-09 12:20 UTC).     *)

Feb9 == 18667 * DAILY_ALIGNER

At(h, m) == Feb9 + (h * 3600) + (m * 60)

PlanStartTimes == { At(12, 20), At(12, 0), At(0, 10), At(23, 59) }

PlanNewest == { At(9, 32), At(5, 14), At(12, 5), At(0, 0) - DAILY_ALIGNER }

PlanHoursAgo == {0, 5, 12}

PlanEvent(t) ==
    [id |-> 1, start_time |-> [s |-> t, u |-> EventMicros], policies |-> {"p1"}]

InitPlan ==
    /\ now \in PlanStartTimes
    /\ ticks = 0
    /\ cfg \in [maxHoursAgo : PlanHoursAgo, fullDays : BOOLEAN,
                hourly : BOOLEAN, nonStrict : BOOLEAN]
    /\ \/ /\ table = {}
          /\ csv = [exists |-> TRUE, rows |-> << >>, wtime |-> At(0, 0),
                    kind |-> "full", minHour |-> At(0, 0) - DAILY_ALIGNER,
                    nsrc |-> 0]
       \/ \E t \in PlanNewest :
            /\ t <= now
            /\ table = { PlanEvent(t) }
            /\ csv = [exists |-> TRUE, rows |-> PolicyHits(table),
                      wtime |-> t, kind |-> "full",
                      minHour |-> At(0, 0) - DAILY_ALIGNER, nsrc |-> 1]
    /\ pc = "idle"
    /\ err = "none"
    /\ START_TIME = 0
    /\ input_csv = NoFile
    /\ prelim_min_hour = NoMicro
    /\ increm_min_hour_sec = 0
    /\ csv_hits_in_range = << >>
    /\ new_hits = << >>
    /\ write_df = << >>
    /\ NoJob
    /\ NoExt

NextPlan == IncRun

SpecPlan == InitPlan /\ [][NextPlan]_vars

----------------------------------------------------------------------------
(* Argument validation and time frame of a job started from a command     *)
(* line: create_csv.py and create_csv_incremental.py, get_args and the     *)
(* part of main up to the time frame.                                      *)

(* create_csv.py get_args: the first check that fails ends it.  The        *)
(* handler of a malformed --dayRange reads args.day_range of a dict,       *)
(* which raises AttributeError.                                            *)
GetArgs(a) ==
    LET mha == a.maxHoursAgo
        dr == a.dayRange
        fail(e) == [NoArgs EXCEPT !.exc = e]
        timeout == IF a.timeout_sec.given THEN IntOf(a.timeout_sec.text)
                   ELSE DefaultTimeoutSec
    IN  IF Truthy(mha) /\ dr # << >> THEN fail("ValidationException")
        ELSE IF ~Truthy(mha) /\ dr = << >> THEN fail("ValidationException")
        ELSE IF mha.given /\ ~IsInt(mha.text) THEN fail("ValidationException")
        ELSE IF mha.given /\ IntOf(mha.text) < 0 THEN fail("ValidationException")
        ELSE IF ~mha.given /\ dr # << >>
                /\ (Len(dr) # 2 \/ \E i \in 1..Len(dr) : ~ValidDate(dr[i]))
             THEN fail("AttributeError")
        ELSE IF ~mha.given /\ dr # << >> /\ Strptime(dr[1]) > Strptime(dr[2])
             THEN fail("ValidationException")
        ELSE IF a.timeout_sec.given /\ ~IsInt(a.timeout_sec.text)
             THEN fail("ValidationException")
        ELSE IF ~(timeout > 0) THEN fail("ValidationException")
        ELSE [exc |-> "none",
              maxHoursAgo |-> IF mha.given THEN SomeInt(IntOf(mha.text))
                              ELSE NoneInt,
              dayRange |-> dr,
              startDt |-> IF mha.given THEN 0 ELSE Strptime(dr[1]),
              endDt |-> IF mha.given THEN 0 ELSE Strptime(dr[2]),
              timeout_sec |-> timeout,
              warned |-> mha.given /\ IntOf(mha.text) = 0]

(* create_csv_incremental.py get_args: --maxHoursAgo is checked when it is *)
(* there; --dayRange is stored and never looked at                         *)
GetArgsIncremental(a) ==
    LET mha == a.maxHoursAgo
        fail(e) == [NoArgs EXCEPT !.exc = e]
    IN  IF mha.given /\ ~IsInt(mha.text) THEN fail("ValidationException")
        ELSE IF mha.given /\ IntOf(mha.text) < 0 THEN fail("ValidationException")
        ELSE [exc |-> "none",
              maxHoursAgo |-> IF mha.given THEN SomeInt(IntOf(mha.text))
                              ELSE NoneInt,
              dayRange |-> a.dayRange,
              startDt |-> 0,
              endDt |-> 0,
              timeout_sec |-> 0,
              warned |-> mha.given /\ IntOf(mha.text) = 0]

(* int((startDt - datetime.utcfromtimestamp(0)).total_seconds()) *)
MinEpoch(startDt) == startDt * DAILY_ALIGNER

(* mutant: the range ends at the start of its last day *)
MaxEpoch_LastDayStart(endDt) == endDt * DAILY_ALIGNER

(* int(((endDt + timedelta(days=1)) - datetime.utcfromtimestamp(0)).total_seconds()) *)
MaxEpoch(endDt) == (endDt + 1) * DAILY_ALIGNER

(* create_csv.py main, "Get timeframe": pushdown stays "" when             *)
(* args.maxHoursAgo is 0 or None and args.dayRange is not set              *)
Timeframe(start, a, fullDays) ==
    IF a.maxHoursAgo.given /\ a.maxHoursAgo.val # 0
    THEN [kind |-> "from",
          min |-> MinHour(start, a.maxHoursAgo.val, fullDays), max |-> 0]
    ELSE IF a.dayRange # << >>
    THEN [kind |-> "range", min |-> MinEpoch(a.startDt), max |-> MaxEpoch(a.endDt)]
    ELSE [kind |-> "empty", min |-> 0, max |-> 0]

(* the requests of create_csv.py main before the time frame: validate_db, *)
(* validate_table, validate_bucket, the describe query, its result and    *)
(* the two deletes                                                         *)
CallsBeforeTimeframe ==
    << "glue.get_database", "glue.get_table", "s3.head_bucket",
       "athena.start_query_execution", "athena.get_query_execution",
       "s3.get_object", "s3.delete_object", "s3.delete_object" >>

(* the requests of create_csv_incremental.py main before the floor:       *)
(* validate_db, validate_table, validate_bucket twice, get_latest_file    *)
CallsBeforeFloor ==
    << "glue.get_database", "glue.get_table", "s3.head_bucket",
       "s3.head_bucket", "s3.list_objects_v2" >>

Scripts == {"create_csv", "create_csv_incremental"}

RawHours == {Unset, Raw(""), Raw("-1"), Raw("0"), Raw("5"), Raw("x")}

RawTimeouts == {Unset, Raw("0"), Raw("3"), Raw("x")}

(* --dayRange as the parts between its dashes: not set, the documented    *)
(* example, one day, a range over a leap day, a reversed range, a day     *)
(* that does not exist, a text without a dash                              *)
RawRanges ==
    { << >>, << 20201230, 20210119 >>, << 20210119, 20210119 >>,
      << 20200228, 20200301 >>, << 20210119, 20201230 >>,
      << 20210230, 20210301 >>, << 20201230 >> }

InitArgs ==
    /\ now \in PlanStartTimes
    /\ START_TIME = now
    /\ ticks = 0
    /\ table = {}
    /\ cfg = [maxHoursAgo |-> 0, fullDays |-> FALSE, hourly |-> FALSE,
              nonStrict |-> FALSE]
    /\ csv = NoFile
    /\ pc = "idle"
    /\ err = "none"
    /\ input_csv = NoFile
    /\ prelim_min_hour = NoMicro
    /\ increm_min_hour_sec = 0
    /\ csv_hits_in_range = << >>
    /\ new_hits = << >>
    /\ write_df = << >>
    /\ argv \in [script : Scripts, maxHoursAgo : RawHours, dayRange : RawRanges,
                 fullDays : BOOLEAN, timeout_sec : RawTimeouts]
    \* create_csv_incremental.py has no --timeout_sec
    /\ argv.script = "create_csv_incremental" => argv.timeout_sec = Unset
    /\ args = NoArgs
    /\ jpc = "start"
    /\ jerr = "none"
    /\ calls = << >>
    /\ pushdown = NoPushdown
    /\ NoQuery
    /\ NoExt

(* create_csv.py, args = get_args() *)
RunGetArgs ==
    /\ jpc = "start"
    /\ argv.script = "create_csv"
    /\ args' = GetArgs(argv)
    /\ jerr' = args'.exc
    /\ jpc' = IF args'.exc = "none" THEN "main" ELSE "failed"
    /\ UNCHANGED << mergeVars, argv, calls, pushdown, queryVars >>
    /\ UNCHANGED extVars

(* create_csv_incremental.py, args = get_args() *)
RunGetArgsIncremental ==
    /\ jpc = "start"
    /\ argv.script = "create_csv_incremental"
    /\ args' = GetArgsIncremental(argv)
    /\ jerr' = args'.exc
    /\ jpc' = IF args'.exc = "none" THEN "main" ELSE "failed"
    /\ UNCHANGED << mergeVars, argv, calls, pushdown, queryVars >>
    /\ UNCHANGED extVars

(* create_csv.py main, lines 456-537, on a catalog and a bucket that      *)
(* answer: the checks, the describe query, the time frame and the query   *)
(* text                                                                    *)
MainTimeframe ==
    /\ jpc = "main"
    /\ argv.script = "create_csv"
    /\ calls' = calls \o CallsBeforeTimeframe
    /\ pushdown' = Timeframe(START_TIME, args, argv.fullDays)
    /\ jpc' = "query"
    /\ UNCHANGED << mergeVars, argv, args, jerr, queryVars >>
    /\ UNCHANGED extVars

(* create_csv_incremental.py main, lines 458-518, on a catalog and a      *)
(* bucket that answer and hold an input CSV: 3600 * args.maxHoursAgo      *)
(* raises TypeError when --maxHoursAgo was not given                       *)
IncMainFloor ==
    /\ jpc = "main"
    /\ argv.script = "create_csv_incremental"
    /\ calls' = calls \o CallsBeforeFloor
    /\ IF args.maxHoursAgo.given
       THEN /\ prelim_min_hour' =
                   ToMicro(MinHour(START_TIME, args.maxHoursAgo.val, argv.fullDays))
            /\ jpc' = "floor"
            /\ jerr' = jerr
       ELSE /\ prelim_min_hour' = prelim_min_hour
            /\ jpc' = "failed"
            /\ jerr' = "TypeError"
    /\ UNCHANGED << now, ticks, table, cfg, csv, pc, err, START_TIME, input_csv,
                    increm_min_hour_sec, csv_hits_in_range, new_hits, write_df,
                    argv, args, pushdown, queryVars >>
    /\ UNCHANGED extVars

NextArgs == RunGetArgs \/ RunGetArgsIncremental \/ MainTimeframe \/ IncMainFloor

SpecArgs == InitArgs /\ [][NextArgs]_vars

----------------------------------------------------------------------------
(* create_csv.py execute_query, called by main for the CSV-generating      *)
(* query, and the Athena query execution it starts.                        *)

(* seconds by which int(time()) moves over one sleep(1) *)
SleepSteps == {1, 2}

QueryTimeouts == {Raw("1"), Raw("2"), Raw("3")}

(* the states a query execution can move to.  A query that cannot be       *)
(* parsed fails; Athena retries a query after a transient error, which     *)
(* takes a RUNNING or FAILED execution back to QUEUED.  The result file is *)
(* written to the output location when the query succeeds.                 *)
EngineNext(e, runnable) ==
    LET to(st) == [e EXCEPT !.state = st]
        retry == IF runnable /\ e.retries < MaxRetries
                 THEN { [state |-> "QUEUED", retries |-> e.retries + 1,
                         output |-> e.output] }
                 ELSE {}
    IN  IF e.state = "QUEUED"
        THEN { to("FAILED"), to("CANCELLED") }
                 \cup (IF runnable THEN { to("RUNNING") } ELSE {})
        ELSE IF e.state = "RUNNING"
        THEN { to("FAILED"), to("CANCELLED"),
               [e EXCEPT !.state = "SUCCEEDED", !.output = TRUE] } \cup retry
        ELSE IF e.state = "FAILED" THEN retry
        ELSE {}

(* mutant: the deadline has to be passed, not reached *)
TimedOut_Late(start, t, timeout_sec) == (t - start) > timeout_sec

(* (int(time()) - start_time) >= args.timeout_sec *)
TimedOut(start, t, timeout_sec) == (t - start) >= timeout_sec

(* mutant: on the deadline the query is submitted again *)
NextAfterSleep_Resubmit(stage, expired) == IF expired THEN "call" ELSE stage

(* after sleep(1): raise TimeoutException, or poll again *)
NextAfterSleep(stage, expired) == IF expired THEN "raised" ELSE stage

(* an exception leaves execute_query and main; job is the state of the     *)
(* query execution at that moment                                          *)
Raised(kind, stage) ==
    /\ outcome' = [kind |-> kind, stage |-> stage, job |-> engine.state]
    /\ jerr' = kind
    /\ jpc' = "failed"

InitQuery ==
    /\ now = T0
    /\ START_TIME = now
    /\ ticks = 0
    /\ table = {}
    /\ cfg = [maxHoursAgo |-> 0, fullDays |-> FALSE, hourly |-> FALSE,
              nonStrict |-> FALSE]
    /\ csv = NoFile
    /\ pc = "idle"
    /\ err = "none"
    /\ input_csv = NoFile
    /\ prelim_min_hour = NoMicro
    /\ increm_min_hour_sec = 0
    /\ csv_hits_in_range = << >>
    /\ new_hits = << >>
    /\ write_df = << >>
    /\ argv \in [script : {"create_csv"}, maxHoursAgo : {Raw("0"), Raw("5")},
                 dayRange : {<< >>}, fullDays : {FALSE},
                 timeout_sec : QueryTimeouts]
    /\ args = GetArgs(argv)
    /\ jpc = "query"
    /\ jerr = "none"
    /\ calls = CallsBeforeTimeframe
    /\ pushdown = Timeframe(START_TIME, args, argv.fullDays)
    /\ qpc = "call"
    /\ engine = NoEngine
    /\ polled = "none"
    /\ start_time = 0
    /\ outcome = NoOutcome
    /\ NoExt

(* lines 279-289: start_time = int(time()); start_query_execution *)
StartQuery ==
    /\ jpc = "query"
    /\ qpc = "call"
    /\ start_time' = now
    /\ calls' = Append(calls, "athena.start_query_execution")
    /\ engine' = [state |-> "QUEUED", retries |-> 0, output |-> engine.output]
    /\ qpc' = "queued"
    /\ UNCHANGED << mergeVars, argv, args, jpc, jerr, pushdown, polled, outcome >>
    /\ UNCHANGED extVars

(* lines 293-298: the condition of the first loop *)
PollQueued ==
    /\ qpc = "queued"
    /\ polled' = engine.state
    /\ calls' = Append(calls, "athena.get_query_execution")
    /\ qpc' = IF engine.state = "QUEUED" THEN "queued_sleep" ELSE "running"
    /\ UNCHANGED << mergeVars, argv, args, jpc, jerr, pushdown, engine,
                    start_time, outcome >>
    /\ UNCHANGED extVars

(* lines 299-304: the body of the first loop *)
SleepQueued ==
    /\ qpc = "queued_sleep"
    /\ \E d \in SleepSteps :
         /\ now' = now + d
         /\ qpc' = NextAfterSleep("queued",
                                  TimedOut(start_time, now', args.timeout_sec))
    /\ IF qpc' = "raised"
       THEN Raised("TimeoutException", "queue")
       ELSE UNCHANGED << outcome, jerr, jpc >>
    /\ UNCHANGED << ticks, table, cfg, csv, pc, err, runVars, argv, args, calls,
                    pushdown, engine, polled, start_time >>
    /\ UNCHANGED extVars

(* lines 308-313: the condition of the second loop *)
PollRunning ==
    /\ qpc = "running"
    /\ polled' = engine.state
    /\ calls' = Append(calls, "athena.get_query_execution")
    /\ qpc' = IF engine.state = "RUNNING" THEN "running_sleep" ELSE "final"
    /\ UNCHANGED << mergeVars, argv, args, jpc, jerr, pushdown, engine,
                    start_time, outcome >>
    /\ UNCHANGED extVars

(* lines 314-319: the body of the second loop *)
SleepRunning ==
    /\ qpc = "running_sleep"
    /\ \E d \in SleepSteps :
         /\ now' = now + d
         /\ qpc' = NextAfterSleep("running",
                                  TimedOut(start_time, now', args.timeout_sec))
    /\ IF qpc' = "raised"
       THEN Raised("TimeoutException", "execution")
       ELSE UNCHANGED << outcome, jerr, jpc >>
    /\ UNCHANGED << ticks, table, cfg, csv, pc, err, runVars, argv, args, calls,
                    pushdown, engine, polled, start_time >>
    /\ UNCHANGED extVars

(* lines 321-338: QueryException unless the state is SUCCEEDED, else the   *)
(* query execution is returned and main goes on                            *)
FinalPoll ==
    /\ qpc = "final"
    /\ polled' = engine.state
    /\ calls' = calls \o << "athena.get_query_execution",
                            "athena.get_query_execution" >>
    /\ IF engine.state # "SUCCEEDED"
       THEN /\ qpc' = "raised"
            /\ Raised("QueryException", "final")
       ELSE /\ qpc' = "returned"
            /\ outcome' = [kind |-> "returned", stage |-> "final",
                           job |-> engine.state]
            /\ jpc' = "exported"
            /\ jerr' = jerr
    /\ UNCHANGED << mergeVars, argv, args, pushdown, engine, start_time >>
    /\ UNCHANGED extVars

(* the query execution moves on, whether or not execute_query still waits  *)
EngineStep ==
    /\ \E e \in EngineNext(engine, pushdown.kind # "empty") : engine' = e
    /\ UNCHANGED << mergeVars, argVars, qpc, polled, start_time, outcome >>
    /\ UNCHANGED extVars

NextQuery ==
    \/ StartQuery
    \/ PollQueued
    \/ SleepQueued
    \/ PollRunning
    \/ SleepRunning
    \/ FinalPoll
    \/ EngineStep

SpecQuery == InitQuery /\ [][NextQuery]_vars

----------------------------------------------------------------------------
(* create_csv_incremental.py main, lines 577-627: the frame over the source *)
(* table, the table schema from the catalog, the trigger column check, the *)
(* select expressions and the query of the fresh rows                       *)

(* columns a catalog table may have, as (name, type) *)
Column(n, t) == [name |-> n, type |-> t]

ColumnPool ==
    { Column("start_time", "bigint"),
      Column("policies", "array<string>"),
      Column("parent_policies", "array<string>"),
      Column("answers", "map<string,string>") }

PartitionKeyChoices ==
    { << >>, << Column("hour", "int") >>, << Column("policies", "string") >> }

SeqsUpTo(S, n) == UNION { [1..k -> S] : k \in 0..n }

(* get_table_schema: the data columns followed by the partition keys *)
get_table_schema(t) == t.cols \o t.p_cols

(* the number of columns named as the trigger column *)
Matching(cols, name) == Cardinality({ i \in 1..Len(cols) : cols[i].name = name })

TriggerColumnOk_AtLeastOne(cols, name) == Matching(cols, name) >= 1

(* line 595: exactly one column on which to explode *)
TriggerColumnOk(cols, name) == Matching(cols, name) = 1

IsNested(type) == type \in {"map<string,string>", "struct<a:int>"}

(* lines 602-609: one select expression per column, in the catalog's order *)
SelectExpr(col, name) ==
    IF col.name = name THEN [expr |-> "explode", col |-> col.name, as |-> "policy"]
    ELSE IF IsNested(col.type)
         THEN [expr |-> "json_clean", col |-> col.name, as |-> col.name]
         ELSE [expr |-> "cast_string", col |-> col.name, as |-> col.name]

InitSchema ==
    /\ NoMerge
    /\ NoJob
    /\ policyType \in {"policies", "parent_policies"}
    /\ glue_table \in [cols : SeqsUpTo(ColumnPool, MaxCols),
                       p_cols : PartitionKeyChoices]
    /\ tmp_schema = << >>
    /\ schema = << >>
    /\ spc = "pushdown"
    /\ serr = "none"
    /\ scanned = FALSE
    /\ NoHash
    /\ NoBucket
    /\ NoLoad

(* lines 578-586: the frame over the source table is declared with the     *)
(* pushdown predicate; Spark evaluates it when rows are asked for           *)
FromCatalog ==
    /\ spc = "pushdown"
    /\ spc' = "frame"
    /\ UNCHANGED << policyType, glue_table, tmp_schema, schema, serr, scanned >>
    /\ UNCHANGED << mergeVars, argVars, queryVars, hashVars, bucketVars, loadVars >>

(* lines 591-609 *)
ResolveSchema ==
    /\ spc = "frame"
    /\ tmp_schema' = get_table_schema(glue_table)
    /\ IF TriggerColumnOk(tmp_schema', policyType)
       THEN /\ schema' = [i \in 1..Len(tmp_schema') |->
                              SelectExpr(tmp_schema'[i], policyType)]
            /\ spc' = "select"
            /\ serr' = "none"
       ELSE /\ schema' = << >>
            /\ spc' = "failed"
            /\ serr' = "Exception"
    /\ UNCHANGED << policyType, glue_table, scanned >>
    /\ UNCHANGED << mergeVars, argVars, queryVars, hashVars, bucketVars, loadVars >>

(* lines 611-627: the select over the frame and its count() read the rows *)
QueryNewHits ==
    /\ spc = "select"
    /\ spc' = "queried"
    /\ scanned' = TRUE
    /\ UNCHANGED << policyType, glue_table, tmp_schema, schema, serr >>
    /\ UNCHANGED << mergeVars, argVars, queryVars, hashVars, bucketVars, loadVars >>

NextSchema == FromCatalog \/ ResolveSchema \/ QueryNewHits

SpecSchema == InitSchema /\ [][NextSchema]_vars

----------------------------------------------------------------------------
(* hash_key and its three callers: create_csv.py, create_csv_incremental.py *)
(* and s3-hash-location.py                                                  *)

HashScripts == {"create_csv", "create_csv_incremental", "s3-hash-location"}

OrdinalTexts == {"1", "01", "12", "x"}

(* int() of an --ordinal text; argparse ends the script on other texts *)
IsOrdinalInt(t) == t \in {"1", "01", "12"}

OrdinalInt(t) == IF t = "12" THEN 12 ELSE 1

(* str() of an int *)
Str(n) == IF n = 12 THEN "12" ELSE "1"

(* PBKDF2-HMAC-SHA512 as a function of its arguments: the digest stands    *)
(* for itself, two digests being equal when the arguments are               *)
pbkdf2_hmac(hash_name, password, salt, iterations) ==
    [hash_name |-> hash_name, password |-> password, salt |-> salt,
     iterations |-> iterations]

hash_key(salt, ordinal, subscriber, receiver) ==
    pbkdf2_hmac("sha512", subscriber \o receiver, salt \o ordinal, 100000)

NoDigest == [hash_name |-> "none", password |-> "", salt |-> "", iterations |-> 0]

UsageError == [hash_name |-> "usage", password |-> "", salt |-> "", iterations |-> 0]

InitHash ==
    /\ NoMerge
    /\ NoJob
    /\ NoSchema
    /\ hkey \in [salt : {"s", "s1"}, ordinal : OrdinalTexts,
                 subscriber : {"sub", "subre"}, receiver : {"rec", "c"}]
    /\ hopts \in [outputDir : {"out", "PolicyTriggerCSV-1612822800-ab"},
                  verbose : BOOLEAN]
    /\ uniq = [sc \in HashScripts |-> NoDigest]
    /\ NoBucket
    /\ NoLoad

(* create_csv.py main, line 477 *)
CreateCsvUniq ==
    /\ uniq["create_csv"] = NoDigest
    /\ uniq' = [uniq EXCEPT !["create_csv"] =
                    hash_key(hkey.salt, hkey.ordinal, hkey.subscriber, hkey.receiver)]
    /\ UNCHANGED << hkey, hopts, mergeVars, argVars, queryVars, schemaVars, bucketVars,
                   loadVars >>

(* create_csv_incremental.py main, line 632 *)
IncrementalUniq ==
    /\ uniq["create_csv_incremental"] = NoDigest
    /\ uniq' = [uniq EXCEPT !["create_csv_incremental"] =
                    hash_key(hkey.salt, hkey.ordinal, hkey.subscriber, hkey.receiver)]
    /\ UNCHANGED << hkey, hopts, mergeVars, argVars, queryVars, schemaVars, bucketVars,
                   loadVars >>

(* s3-hash-location.py, lines 20-28: --ordinal is parsed with type=int and *)
(* handed on as str(args.ordinal)                                           *)
HashLocationMain ==
    /\ uniq["s3-hash-location"] = NoDigest
    /\ uniq' = [uniq EXCEPT !["s3-hash-location"] =
                    IF IsOrdinalInt(hkey.ordinal)
                    THEN hash_key(hkey.salt, Str(OrdinalInt(hkey.ordinal)),
                                  hkey.subscriber, hkey.receiver)
                    ELSE UsageError]
    /\ UNCHANGED << hkey, hopts, mergeVars, argVars, queryVars, schemaVars, bucketVars,
                   loadVars >>

NextHash == CreateCsvUniq \/ IncrementalUniq \/ HashLocationMain

SpecHash == InitHash /\ [][NextHash]_vars

----------------------------------------------------------------------------
(* create_csv_incremental.py on its bucket: get_latest_file, the write of  *)
(* the result and rename_file, for two runs started with the same options  *)
(* on the same bucket.  A key is the sequence of its path segments.        *)

Runs == {"A", "B"}

PartName == [r \in Runs |-> IF r = "A" THEN "part-A.csv" ELSE "part-B.csv"]

CsvNames == {"old.csv", "latest.csv", "part-A.csv", "part-B.csv"}

(* every key of the model, in the order S3 lists keys *)
KeyOrder ==
    << << "in", "old.csv" >>, << "latest.csv" >>,
       << "out", "h", "part-A.csv" >>, << "out", "h", "part-B.csv" >>,
       << "out", "latest.csv" >>, << "out", "notes.txt" >>,
       << "out", "readme.md" >> >>

Obj(key, mtime, by) == [key |-> key, mtime |-> mtime, by |-> by]

NoObj == Obj(<< >>, 0, "none")

(* Key.endswith(".csv") *)
IsCsv(key) == key # << >> /\ key[Len(key)] \in CsvNames

HasPrefix(key, prefix) ==
    Len(prefix) <= Len(key) /\ SubSeq(key, 1, Len(prefix)) = prefix

(* list_objects_v2 with Prefix: the matching objects in key order *)
Listing(b, prefix) ==
    LET keys == SelectSeq(KeyOrder, LAMBDA k :
                    HasPrefix(k, prefix) /\ \E o \in b : o.key = k)
    IN  [i \in 1..Len(keys) |-> CHOOSE o \in b : o.key = keys[i]]

(* the paginator: pages of PageSize objects, one empty page for no object *)
RECURSIVE Paginate(_)
Paginate(listing) ==
    IF Len(listing) <= PageSize THEN << listing >>
    ELSE << SubSeq(listing, 1, PageSize) >>
         \o Paginate(SubSeq(listing, PageSize + 1, Len(listing)))

Later_Earlier(a, b) == a.mtime < b.mtime

(* latest_file[DT_INDEX] > target_file[DT_INDEX] *)
Later(a, b) == a.mtime > b.mtime

(* max(files, key=...): the first of the files that none is later than *)
RECURSIVE MaxFile(_)
MaxFile(files) ==
    IF Len(files) = 1 THEN files[1]
    ELSE LET rest == MaxFile(Tail(files))
         IN  IF Later(rest, files[1]) THEN rest ELSE files[1]

(* get_latest_file, lines 284-300: max() of a page without .csv keys raises *)
RECURSIVE LatestFrom(_, _)
LatestFrom(pages, target) ==
    IF pages = << >> THEN [exc |-> "none", file |-> target]
    ELSE LET files == SelectSeq(Head(pages), LAMBDA o : IsCsv(o.key))
         IN  IF files = << >> THEN [exc |-> "ValueError", file |-> NoObj]
             ELSE LET latest_file == MaxFile(files)
                  IN  LatestFrom(Tail(pages),
                                 IF target = NoObj \/ Later(latest_file, target)
                                 THEN latest_file ELSE target)

get_latest_file(b, prefix) == LatestFrom(Paginate(Listing(b, prefix)), NoObj)

Put(b, key, mtime, by) == { o \in b : o.key # key } \cup { Obj(key, mtime, by) }

(* s3_loc, line 633 *)
S3Loc == opts.outputDir \o << "h" >>

PartKey(r) == S3Loc \o << PartName[r] >>

(* rename_file, lines 329-335 *)
RenameKey ==
    (IF opts.dontPreserveOutputDir THEN << >> ELSE opts.outputDir)
        \o << opts.outputFilename >>

Active(pos) == pos \in {"plan", "write", "rename", "delete"}

(* run r moves to position pos *)
Move(r, pos, exc) ==
    /\ rpc' = [rpc EXCEPT ![r] = pos]
    /\ rerr' = [rerr EXCEPT ![r] = exc]
    /\ overlapped' = (overlapped \/ \A q \in Runs : Active(rpc'[q]))

BaseObjects ==
    { Obj(<< "in", "old.csv" >>, 1, "base"), Obj(<< "in", "old.csv" >>, 2, "base"),
      Obj(<< "out", "latest.csv" >>, 1, "base"), Obj(<< "out", "latest.csv" >>, 2, "base"),
      Obj(<< "out", "notes.txt" >>, 1, "base"), Obj(<< "out", "readme.md" >>, 1, "base") }

InitBucket ==
    /\ NoMerge
    /\ NoJob
    /\ NoSchema
    /\ NoHash
    /\ bucket \in { b \in SUBSET BaseObjects :
                      \A o1, o2 \in b : o1.key = o2.key => o1 = o2 }
    /\ s3clock = 3
    /\ opts \in [inputPrefix : {<< "in" >>, << "out" >>},
                 outputDir : {<< "out" >>},
                 outputFilename : {"", "latest.csv"},
                 dontPreserveOutputDir : BOOLEAN,
                 keepOrigOnRename : BOOLEAN]
    /\ rpc = [r \in Runs |-> "start"]
    /\ rerr = [r \in Runs |-> "none"]
    /\ rin = [r \in Runs |-> NoObj]
    /\ seen = [r \in Runs |-> {}]
    /\ picked = [r \in Runs |-> NoObj]
    /\ overlapped = FALSE
    /\ NoLoad

(* main, lines 482-494 *)
GetInput(r) ==
    /\ rpc[r] = "start"
    /\ LET res == get_latest_file(bucket, opts.inputPrefix)
       IN  /\ rin' = [rin EXCEPT ![r] = res.file]
           /\ seen' = [seen EXCEPT ![r] =
                           { o \in bucket : HasPrefix(o.key, opts.inputPrefix)
                                            /\ IsCsv(o.key) }]
           /\ IF res.exc # "none" THEN Move(r, "failed", res.exc)
              ELSE IF res.file = NoObj THEN Move(r, "failed", "NoCandidateCsv")
              ELSE Move(r, "plan", "none")
    /\ UNCHANGED << bucket, s3clock, opts, picked >>
    /\ UNCHANGED << mergeVars, argVars, queryVars, schemaVars, hashVars, loadVars >>

(* line 637, the start of the write: csv() refuses a path that exists *)
PlanWrite(r) ==
    /\ rpc[r] = "plan"
    /\ IF \E o \in bucket : HasPrefix(o.key, S3Loc)
       THEN Move(r, "failed", "AnalysisException")
       ELSE Move(r, "write", "none")
    /\ UNCHANGED << bucket, s3clock, opts, rin, seen, picked >>
    /\ UNCHANGED << mergeVars, argVars, queryVars, schemaVars, hashVars, loadVars >>

(* line 637, the end of the write: the one data file appears under s3_loc *)
CommitWrite(r) ==
    /\ rpc[r] = "write"
    /\ bucket' = Put(bucket, PartKey(r), s3clock, r)
    /\ s3clock' = s3clock + 1
    /\ Move(r, IF opts.outputFilename # "" THEN "rename" ELSE "done", "none")
    /\ UNCHANGED << opts, rin, seen, picked >>
    /\ UNCHANGED << mergeVars, argVars, queryVars, schemaVars, hashVars, loadVars >>

(* rename_file, lines 319-337, called with prefix=args.outputDir: the      *)
(* latest .csv under the prefix is copied to the new name; S3 refuses to   *)
(* copy an object onto itself                                               *)
RenameCopy(r) ==
    /\ rpc[r] = "rename"
    /\ LET res == get_latest_file(bucket, opts.outputDir)
       IN  IF res.exc # "none"
           THEN /\ Move(r, "failed", res.exc)
                /\ UNCHANGED << bucket, s3clock, picked >>
           ELSE IF res.file = NoObj
           THEN /\ Move(r, "failed", "Exception")
                /\ UNCHANGED << bucket, s3clock, picked >>
           ELSE IF res.file.key = RenameKey
           THEN /\ Move(r, "failed", "ClientError")
                /\ picked' = [picked EXCEPT ![r] = res.file]
                /\ UNCHANGED << bucket, s3clock >>
           ELSE /\ bucket' = Put(bucket, RenameKey, s3clock, res.file.by)
                /\ s3clock' = s3clock + 1
                /\ picked' = [picked EXCEPT ![r] = res.file]
                /\ Move(r, IF opts.keepOrigOnRename THEN "done" ELSE "delete",
                        "none")
    /\ UNCHANGED << opts, rin, seen >>
    /\ UNCHANGED << mergeVars, argVars, queryVars, schemaVars, hashVars, loadVars >>

(* rename_file, lines 339-344 *)
RenameDelete(r) ==
    /\ rpc[r] = "delete"
    /\ bucket' = { o \in bucket : o.key # picked[r].key }
    /\ Move(r, "done", "none")
    /\ UNCHANGED << s3clock, opts, rin, seen, picked >>
    /\ UNCHANGED << mergeVars, argVars, queryVars, schemaVars, hashVars, loadVars >>

NextBucket ==
    \E r \in Runs :
        GetInput(r) \/ PlanWrite(r) \/ CommitWrite(r) \/ RenameCopy(r)
            \/ RenameDelete(r)

SpecBucket == InitBucket /\ [][NextBucket]_vars

----------------------------------------------------------------------------
(* loadpartition.py: SHOW PARTITIONS through Athena, the hour-level folders *)
(* of the data bucket, their difference and the ALTER TABLE that adds it.   *)
(* A partition is the sequence of its (column, value) pairs, which is what *)
(* a line of SHOW PARTITIONS and the prefix of an hour-level folder spell.  *)

LoadTimeout == 30

VALID_DATA_TYPES == {"dns", "proxy"}

KV(k, v) == [k |-> k, v |-> v]

Partition(sub, hour) ==
    << KV("subscriber", sub), KV("year", "2021"), KV("month", "02"),
       KV("day", "09"), KV("hour", hour) >>

PartitionPool ==
    { Partition("sub1", "12"), Partition("sub1", "13"),
      Partition("sub2.proxy", "12") }

(* Prefix.endswith(PROXY_SUFFIX) of the subscriber folder *)
IsProxy(p) == p[1].v \in {"sub2.proxy"}

(* lines 215-276: the hour-level prefixes under the subscriber folders of  *)
(* the data type                                                            *)
S3List(parts, type) ==
    { p \in parts : IF type = "dns" THEN ~IsProxy(p) ELSE IsProxy(p) }

ResultSet_All(s3List, athenaList) == s3List

(* line 287 *)
ResultSet(s3List, athenaList) == s3List \ athenaList

(* lines 296-311: one PARTITION(column='value', ...) clause per element *)
AlterQuery(resultSet) ==
    { [i \in 1..Len(p) |-> [col |-> p[i].k, quoted |-> p[i].v]] : p \in resultSet }

(* the partition a PARTITION clause names *)
Named(clause) == [i \in 1..Len(clause) |-> KV(clause[i].col, clause[i].quoted)]

NoAlter == [state |-> "none", query |-> {}]

InitLoad ==
    /\ NoMerge
    /\ NoJob
    /\ NoSchema
    /\ NoHash
    /\ NoBucket
    /\ dataType \in VALID_DATA_TYPES \cup {"flow"}
    /\ s3parts \in SUBSET PartitionPool
    /\ catalog \in SUBSET PartitionPool
    /\ lpc = "start"
    /\ lprun = 1
    /\ show = [state |-> "none", result |-> {}]
    /\ state = "none"
    /\ waited = 0
    /\ tmpFolder = {}
    /\ alters = [i \in 1..MaxLoadRuns |-> NoAlter]
    /\ lplog = << >>
    /\ report = "none"

LoadOthersUnchanged ==
    UNCHANGED << mergeVars, argVars, queryVars, schemaVars, hashVars, bucketVars >>

(* lines 45-49 and athena_to_s3, lines 92-99: the data type is checked and *)
(* SHOW PARTITIONS is submitted                                             *)
ShowPartitions ==
    /\ lpc = "start"
    /\ IF dataType \notin VALID_DATA_TYPES
       THEN /\ lpc' = "ConfigurationException"
            /\ UNCHANGED << show, state >>
       ELSE /\ lpc' = "polling"
            /\ show' = [state |-> "QUEUED", result |-> {}]
            /\ state' = "RUNNING"
    /\ UNCHANGED << dataType, s3parts, catalog, lprun, waited, tmpFolder, alters,
                    lplog, report >>
    /\ LoadOthersUnchanged

(* Athena works on SHOW PARTITIONS; its result file lists the catalog's    *)
(* partitions at that time                                                  *)
ShowEngineStep ==
    /\ \/ /\ show.state = "QUEUED"
          /\ show' = [show EXCEPT !.state = "RUNNING"]
          /\ UNCHANGED tmpFolder
       \/ /\ show.state = "RUNNING"
          /\ show' = [state |-> "SUCCEEDED", result |-> catalog]
          /\ tmpFolder' = tmpFolder \cup {"show"}
       \/ /\ show.state \in {"QUEUED", "RUNNING"}
          /\ \E st \in {"FAILED", "CANCELLED"} : show' = [show EXCEPT !.state = st]
          /\ UNCHANGED tmpFolder
    /\ UNCHANGED << dataType, s3parts, catalog, lpc, lprun, state, waited, alters,
                    lplog, report >>
    /\ LoadOthersUnchanged

(* athena_to_s3, lines 100-120, one turn of the loop: the state is read;   *)
(* FAILED returns False and SUCCEEDED the file name; otherwise the loop    *)
(* sleeps a second and goes on while the state is RUNNING or QUEUED.       *)
(* isinstance(s3_filename, bool) then ends the job (lines 183-188).        *)
PollShow ==
    /\ lpc = "polling"
    /\ waited < LoadTimeout + MaxOvertime
    /\ state' = show.state
    /\ IF show.state = "FAILED"
       THEN lpc' = "exit1" /\ UNCHANGED waited
       ELSE IF show.state = "SUCCEEDED"
       THEN lpc' = "read" /\ UNCHANGED waited
       ELSE /\ waited' = waited + 1
            /\ lpc' = IF show.state \in {"RUNNING", "QUEUED"}
                      THEN "polling" ELSE "exit1"
    /\ UNCHANGED << dataType, s3parts, catalog, lprun, show, tmpFolder, alters,
                    lplog, report >>
    /\ LoadOthersUnchanged

(* lines 202-329: the result file is read, the folders are listed, the     *)
(* difference is taken and, when it is not empty, ALTER TABLE is submitted; *)
(* the result folder is emptied and SUCCESS printed when the submission    *)
(* answered with HTTP 200                                                   *)
Reconcile ==
    /\ lpc = "read"
    /\ "show" \in tmpFolder
    /\ LET athenaList == show.result
           s3List == S3List(s3parts, dataType)
           resultSet == ResultSet(s3List, athenaList)
           entry(http) == [run |-> lprun, athenaList |-> athenaList,
                           issued |-> AlterQuery(resultSet), http |-> http]
       IN  IF resultSet # {}
           THEN \E http \in {200, 500} :
                  /\ lplog' = Append(lplog, entry(http))
                  /\ IF http = 200
                     THEN /\ alters' = [alters EXCEPT ![lprun] =
                                 [state |-> "QUEUED", query |-> AlterQuery(resultSet)]]
                          /\ tmpFolder' = {}
                          /\ report' = "SUCCESS"
                     ELSE /\ report' = "FAILURE"
                          /\ UNCHANGED << alters, tmpFolder >>
           ELSE /\ tmpFolder' = {}
                /\ report' = "SUCCESS"
                /\ lplog' = Append(lplog, entry(0))
                /\ UNCHANGED alters
    /\ lpc' = "done"
    /\ UNCHANGED << dataType, s3parts, catalog, lprun, show, state, waited >>
    /\ LoadOthersUnchanged

(* Athena works on an ALTER TABLE ADD IF NOT EXISTS PARTITION *)
AlterEngineStep ==
    /\ \E i \in 1..MaxLoadRuns :
         \/ /\ alters[i].state = "QUEUED"
            /\ alters' = [alters EXCEPT ![i].state = "RUNNING"]
            /\ UNCHANGED catalog
         \/ /\ alters[i].state = "RUNNING"
            /\ alters' = [alters EXCEPT ![i].state = "SUCCEEDED"]
            /\ catalog' = catalog \cup { Named(c) : c \in alters[i].query }
         \/ /\ alters[i].state \in {"QUEUED", "RUNNING"}
            /\ alters' = [alters EXCEPT ![i].state = "FAILED"]
            /\ UNCHANGED catalog
    /\ UNCHANGED << dataType, s3parts, lpc, lprun, show, state, waited, tmpFolder,
                    lplog, report >>
    /\ LoadOthersUnchanged

(* the job is started again after it has ended *)
StartAgain ==
    /\ lpc \in {"done", "exit1"}
    /\ lprun < MaxLoadRuns
    /\ lprun' = lprun + 1
    /\ lpc' = "start"
    /\ show' = [state |-> "none", result |-> {}]
    /\ state' = "none"
    /\ waited' = 0
    /\ report' = "none"
    /\ UNCHANGED << dataType, s3parts, catalog, tmpFolder, alters, lplog >>
    /\ LoadOthersUnchanged

NextLoad ==
    ShowPartitions \/ ShowEngineStep \/ PollShow \/ Reconcile \/ AlterEngineStep
        \/ StartAgain

SpecLoad == InitLoad /\ [][NextLoad]_vars

----------------------------------------------------------------------------
(* Properties *)

NoDuplicates(rows) ==
    \A i, j \in 1..Len(rows) : i # j => rows[i] # rows[j]

(* the export rows that a source event yields under the target policies *)
RowsOf(e) ==
    { [start_time |-> e.start_time, id |-> e.id, policy |-> p] :
        p \in e.policies \cap PolicyStrings }

Watermark == ToMicro(increm_min_hour_sec)

(* C1: in every finished run the retained rows lie strictly below the      *)
(* effective watermark and the freshly queried rows at or above it.         *)
C1_KeptFreshDisjoint ==
    pc = "done" =>
        /\ \A r \in Range(csv_hits_in_range) : MicroLT(r.start_time, Watermark)
        /\ \A r \in Range(new_hits) : MicroGE(r.start_time, Watermark)

C1_Witness ==
    /\ pc = "done"
    /\ csv_hits_in_range # << >>
    /\ new_hits # << >>

(* C2: whatever runs were made, failed or skipped before, no row occurs    *)
(* more than once in the export.                                            *)
C2_NoDuplicateRows == csv.exists => NoDuplicates(csv.rows)

C2_Witness ==
    /\ pc = "done"
    /\ input_csv.kind = "incremental"
    /\ input_csv.wtime < START_TIME
    /\ Len(csv_hits_in_range) >= 2
    /\ Len(new_hits) >= 2

(* C3, for the runs the claim singles out (--nonStrict set): when the      *)
(* input CSV had every targeted source row between the retention floor and *)
(* its own write time, the export written by the run has every targeted    *)
(* source row between the retention floor and the run time.                *)
InputGapFree ==
    \A e \in table :
        (MicroGE(e.start_time, prelim_min_hour) /\ e.start_time.s < input_csv.wtime)
            => RowsOf(e) \subseteq Range(input_csv.rows)

OutputGapFree ==
    \A e \in table :
        (MicroGE(e.start_time, prelim_min_hour) /\ e.start_time.s <= START_TIME)
            => RowsOf(e) \subseteq Range(write_df)

C3_NonStrictGapFree ==
    (pc = "done" /\ cfg.nonStrict /\ InputGapFree) => OutputGapFree

(* C4: no row of the written export is older than the retention floor.     *)
C4_NothingBelowFloor ==
    pc = "done" =>
        \A r \in Range(write_df) : MicroGE(r.start_time, prelim_min_hour)

(* C5: a --nonStrict run that has read its input CSV, rows or no rows,     *)
(* computes a watermark, and it is at least the strict watermark of the    *)
(* same run.                                                                *)
C5_NonStrictAtLeastStrict ==
    (cfg.nonStrict /\ pc \in {"done", "failed"} /\ input_csv.exists) =>
        /\ err # "TypeError"
        /\ increm_min_hour_sec >= StandardMinHour(START_TIME, cfg.hourly)

NewestAt(t) ==
    /\ input_csv.rows # << >>
    /\ MicroToSec(LastSeenEpoch(input_csv.rows)) = t

(* C6: with --nonStrict the query starts at the greater of the             *)
(* --maxHoursAgo floor and the last seen hourly epoch of the input CSV;    *)
(* on the two documented examples, for the job started 2021-02-09 12:20    *)
(* UTC: at 1612861200 (9:00) with newest trigger 9:32 and maxHoursAgo 12,  *)
(* and at 1612854000 (7:00) with newest trigger 5:14 and maxHoursAgo 5.    *)
C6_NonStrictStart ==
    (pc = "done" /\ cfg.nonStrict /\ ~cfg.fullDays /\ START_TIME = At(12, 20)) =>
        /\ (cfg.maxHoursAgo = 12 /\ NewestAt(At(9, 32)))
               => increm_min_hour_sec = 1612861200
        /\ (cfg.maxHoursAgo = 5 /\ NewestAt(At(5, 14)))
               => increm_min_hour_sec = 1612854000

C7_Scenario ==
    /\ pc = "done"
    /\ START_TIME = At(12, 20)
    /\ cfg.maxHoursAgo = 12
    /\ NewestAt(At(9, 32))

C8_Idempotent ==
    ( /\ pc = "done"
      /\ input_csv.kind = "incremental"
      /\ input_csv.wtime = START_TIME
      /\ input_csv.nsrc = Cardinality(table) ) =>
        Range(write_df) =
            { r \in Range(input_csv.rows) : MicroGE(r.start_time, prelim_min_hour) }

C10_Original ==
    pc = "done" =>
        /\ increm_min_hour_sec % Aligner(cfg.fullDays) = 0
        /\ StandardMinHour(START_TIME, cfg.hourly) % Aligner(cfg.fullDays) = 0

(* C10 amended: the standard and the effective watermark of a run are      *)
(* multiples of 3600, with or without --fullDays.                          *)
C10_HourMultiple ==
    pc = "done" =>
        /\ increm_min_hour_sec % HOURLY_ALIGNER = 0
        /\ StandardMinHour(START_TIME, cfg.hourly) % HOURLY_ALIGNER = 0

C10_Witness ==
    /\ pc = "done"
    /\ cfg.fullDays
    /\ cfg.nonStrict
    /\ increm_min_hour_sec > StandardMinHour(START_TIME, cfg.hourly)
    /\ increm_min_hour_sec % DAILY_ALIGNER = 0

----------------------------------------------------------------------------
(* Properties of the arguments and the time frame *)

(* f is x rounded down to a multiple of unit *)
IsFloorOf(f, x, unit) == f % unit = 0 /\ f <= x /\ x < f + unit

(* C11: the window floor that a job computes from --maxHoursAgo, in the    *)
(* full export and in the incremental job, is a multiple of the alignment  *)
(* unit (3600, or 86400 with --fullDays): it is the start time minus       *)
(* 3600 * maxHoursAgo, rounded down to the unit.                           *)
C11_FloorAligned ==
    /\ (jpc = "query" /\ pushdown.kind = "from") =>
           IsFloorOf(pushdown.min, START_TIME - (3600 * args.maxHoursAgo.val),
                     Aligner(argv.fullDays))
    /\ jpc = "floor" =>
           /\ prelim_min_hour.u = 0
           /\ IsFloorOf(prelim_min_hour.s,
                        START_TIME - (3600 * args.maxHoursAgo.val),
                        Aligner(argv.fullDays))

C11_Witness ==
    /\ jpc = "query"
    /\ pushdown.kind = "from"
    /\ argv.fullDays
    /\ pushdown.min + HOURLY_ALIGNER < START_TIME - (3600 * args.maxHoursAgo.val)

(* C12: for a --dayRange with start day <= end day the window floor is     *)
(* UTC midnight of the start day and the exclusive ceiling is UTC midnight *)
(* of the end day plus 86400: floor < ceiling, both are multiples of       *)
(* 86400, and 20201230-20210119 gives 2020-12-30T00:00:00Z (1609286400)    *)
(* and 2021-01-20T00:00:00Z (1611100800).                                  *)
C12_DayRangeWindow ==
    (jpc = "query" /\ pushdown.kind = "range") =>
        /\ pushdown.min = Strptime(argv.dayRange[1]) * 86400
        /\ pushdown.max = (Strptime(argv.dayRange[2]) * 86400) + 86400
        /\ pushdown.min < pushdown.max
        /\ pushdown.min % 86400 = 0
        /\ pushdown.max % 86400 = 0
        /\ argv.dayRange = << 20201230, 20210119 >> =>
               (pushdown.min = 1609286400 /\ pushdown.max = 1611100800)
        /\ argv.dayRange = << 20200228, 20200301 >> =>
               pushdown.max - pushdown.min = 3 * 86400

C12_Witness ==
    /\ jpc = "query"
    /\ pushdown.kind = "range"
    /\ argv.dayRange = << 20201230, 20210119 >>

(* C13: a job given maxHoursAgo 0 prints the warning, raises nothing and   *)
(* goes on with a window whose floor is the start of the current hour, or  *)
(* of the current day with --fullDays.                                     *)
C13_ZeroHoursAgo ==
    (jpc # "start" /\ argv.maxHoursAgo = Raw("0") /\ argv.dayRange = << >>
        /\ argv.timeout_sec \in {Unset, Raw("3")}) =>
        /\ args.warned
        /\ jerr = "none"
        /\ jpc = "query" =>
               pushdown = [kind |-> "from",
                           min |-> (START_TIME \div Aligner(argv.fullDays))
                                       * Aligner(argv.fullDays),
                           max |-> 0]
        /\ jpc = "floor" =>
               prelim_min_hour = ToMicro((START_TIME \div Aligner(argv.fullDays))
                                             * Aligner(argv.fullDays))

BothGiven == argv.maxHoursAgo.given /\ argv.dayRange # << >>

NeitherGiven == ~argv.maxHoursAgo.given /\ argv.dayRange = << >>

(* C14: in both jobs a run given both --maxHoursAgo and --dayRange, and a  *)
(* run given neither, ends in a validation error.                          *)
C14_ExactlyOneWindowOption ==
    (jpc \in {"failed", "query", "floor"} /\ (BothGiven \/ NeitherGiven)) =>
        (jpc = "failed" /\ jerr = "ValidationException")

(* a command line with a configuration error: both or neither window      *)
(* option, a malformed or reversed day range, a negative maxHoursAgo, a    *)
(* timeout that is not above 0                                             *)
ConfigurationError ==
    \/ BothGiven
    \/ NeitherGiven
    \/ argv.maxHoursAgo = Raw("-1")
    \/ /\ argv.script = "create_csv"
       /\ \/ argv.dayRange \in { << 20210119, 20201230 >>,
                                 << 20210230, 20210301 >>, << 20201230 >> }
          \/ argv.timeout_sec = Raw("0")

(* C15: a run whose command line has a configuration error sends no        *)
(* request to the catalog, the storage or the query engine: it is aborted  *)
(* before the first one.                                                   *)
C15_ConfigErrorBeforeCalls ==
    ConfigurationError => calls = << >>

----------------------------------------------------------------------------
(* Properties of the exploded rows *)

(* the rows of the event e among rows *)
HitsOf(e, rows) == SelectSeq(rows, LAMBDA r : r.id = e.id)

(* the rows of e are one per targeted policy of e, and equal e in every    *)
(* other field                                                             *)
OnePerTargetPolicy(e, rows) ==
    LET hits == HitsOf(e, rows)
    IN  /\ Len(hits) = Cardinality(e.policies \cap PolicyStrings)
        /\ \A i \in 1..Len(hits) :
             /\ hits[i].policy \in e.policies \cap PolicyStrings
             /\ hits[i].start_time = e.start_time
        /\ \A i, j \in 1..Len(hits) : i # j => hits[i].policy # hits[j].policy

(* C16: a queried source event with N targeted values in its trigger       *)
(* column yields exactly N rows that differ only in policy, and a value     *)
(* that is not targeted yields no row; in the rows queried by the           *)
(* incremental job and in the rows written by the full export.              *)
C16_OneRowPerTargetPolicy ==
    /\ pc = "done" =>
         /\ \A e \in Pushdown(table, increm_min_hour_sec) :
                OnePerTargetPolicy(e, new_hits)
         /\ \A r \in Range(new_hits) : r.policy \in PolicyStrings
    /\ (csv.exists /\ csv.kind = "full") =>
         /\ \A e \in Pushdown(table, csv.minHour) :
                e.id <= csv.nsrc => OnePerTargetPolicy(e, csv.rows)
         /\ \A r \in Range(csv.rows) : r.policy \in PolicyStrings

C16_Witness ==
    /\ pc = "done"
    /\ \E e \in Pushdown(table, increm_min_hour_sec) :
         /\ e.policies = {"p1", "p2"}
         /\ Len(HitsOf(e, new_hits)) = 2
    /\ \E e \in Pushdown(table, increm_min_hour_sec) :
         /\ e.policies = {"p3"}
         /\ Len(HitsOf(e, new_hits)) = 0

----------------------------------------------------------------------------
(* Properties of execute_query *)

Elapsed == now - start_time

(* the requests of the call of execute_query for the CSV-generating query *)
QueryCalls == SubSeq(calls, Len(CallsBeforeTimeframe) + 1, Len(calls))

Count(seq, x) == Cardinality({ i \in 1..Len(seq) : seq[i] = x })

(* C17 as stated: TimeoutException is raised exactly when the time since   *)
(* the submission reaches timeout_sec while the query execution is QUEUED  *)
(* or RUNNING; it is not the engine failure QueryException, and it names   *)
(* the stage, queue or execution, the query execution was in when the      *)
(* deadline was reached.                                                   *)
C17_Original ==
    /\ qpc \in {"queued", "running"} => Elapsed < args.timeout_sec
    /\ outcome.kind = "TimeoutException" =>
         /\ Elapsed >= args.timeout_sec
         /\ jerr # "QueryException"
         /\ outcome.stage = "queue" => outcome.job = "QUEUED"
         /\ outcome.stage = "execution" => outcome.job = "RUNNING"

(* C17 amended: TimeoutException is raised exactly when, after the sleep   *)
(* that follows a poll that returned QUEUED or RUNNING, the time since the *)
(* submission has reached timeout_sec; it is not the engine failure        *)
(* QueryException, and it names the stage of that last poll.               *)
C17_TimeoutAtLastPoll ==
    /\ qpc \in {"queued", "running"} => Elapsed < args.timeout_sec
    /\ outcome.kind = "TimeoutException" =>
         /\ Elapsed >= args.timeout_sec
         /\ jerr # "QueryException"
         /\ outcome.stage = "queue" => polled = "QUEUED"
         /\ outcome.stage = "execution" => polled = "RUNNING"

C17_Witness ==
    /\ outcome.kind = "TimeoutException"
    /\ outcome.stage = "execution"
    /\ Elapsed = args.timeout_sec
    /\ Count(QueryCalls, "athena.get_query_execution") > 2

(* C18: execute_query returns only for a query execution that SUCCEEDED    *)
(* and raises QueryException only for one in a terminal state that is not  *)
(* SUCCEEDED, never for one that is QUEUED or RUNNING, whatever the order   *)
(* in which the engine reports the states.                                 *)
C18_OutcomeMatchesState ==
    /\ outcome.kind = "returned" => outcome.job = "SUCCEEDED"
    /\ outcome.kind = "QueryException" => outcome.job \in {"FAILED", "CANCELLED"}

(* C19: whatever the outcome, a call of execute_query has sent             *)
(* start_query_execution exactly once, and nothing but that and            *)
(* get_query_execution: no retry and no cancellation.                      *)
C19_SubmitsOnce ==
    /\ qpc \notin {"none", "call"} =>
         /\ Count(QueryCalls, "athena.start_query_execution") = 1
         /\ QueryCalls[1] = "athena.start_query_execution"
    /\ Range(QueryCalls) \subseteq
           {"athena.start_query_execution", "athena.get_query_execution"}

C19_Witness ==
    /\ outcome.kind = "TimeoutException"
    /\ engine.state = "RUNNING"
    /\ Count(QueryCalls, "athena.start_query_execution") = 1

(* C20: when the data query fails or times out the run is aborted and no   *)
(* export is written to the output location by it, then or later.          *)
C20_NoOutputOnFailure ==
    outcome.kind \in {"TimeoutException", "QueryException"} =>
        (jpc = "failed" /\ ~engine.output)

(* C21: the incremental job requires exactly one column of the catalog     *)
(* table, data or partition column, to be named as the trigger column;     *)
(* with no such column or with more than one the run ends with a schema    *)
(* exception, and it does so before any row of the source table is read.   *)
TriggerColumns ==
    Matching(glue_table.cols, policyType) + Matching(glue_table.p_cols, policyType)

C21_OneTriggerColumn ==
    spc \in {"select", "queried", "failed"} =>
        /\ (spc = "failed") <=> (TriggerColumns # 1)
        /\ (spc = "failed") => (serr = "Exception" /\ ~scanned /\ schema = << >>)
        /\ scanned => TriggerColumns = 1

C21_Witness ==
    /\ spc = "failed"
    /\ Matching(glue_table.cols, policyType) = 1
    /\ Matching(glue_table.p_cols, policyType) = 1

(* C22: the rows of every file the incremental job writes are in ascending *)
(* order of the event time, whatever rows were kept from the previous file *)
(* and whatever rows were freshly queried.                                  *)
Ascending(rows) ==
    \A i, j \in 1..Len(rows) :
        i < j => ~MicroLT(rows[j].start_time, rows[i].start_time)

C22_AscendingByEventTime ==
    /\ (pc = "done" => Ascending(write_df))
    /\ (csv.exists /\ csv.kind = "incremental" => Ascending(csv.rows))

C22_Witness ==
    /\ pc = "done"
    /\ csv.rows = write_df
    /\ csv_hits_in_range # << >>
    /\ new_hits # << >>
    /\ ~Ascending(new_hits \o csv_hits_in_range)
    /\ \E i, j \in 1..Len(write_df) :
           MicroLT(write_df[i].start_time, write_df[j].start_time)

(* C23: the name of the per-subscriber output subdirectory is a function   *)
(* of (salt, ordinal, subscriber, receiver) alone: the scripts that have   *)
(* computed it for the same four values, create_csv.py,                    *)
(* create_csv_incremental.py and s3-hash-location.py, hold the same name,  *)
(* whatever the other options are.                                          *)
Computed(sc) == uniq[sc] \notin {NoDigest, UsageError}

C23_SameSegmentEverywhere ==
    \A a, b \in DOMAIN uniq : (Computed(a) /\ Computed(b)) => uniq[a] = uniq[b]

(* C24: when --outputFilename is set and --dontPreserveOutputDir is not,   *)
(* the renamed file of a run lies in the directory of the file the run     *)
(* wrote.                                                                   *)
DirOf(key) == SubSeq(key, 1, Len(key) - 1)

Renamed(r) == rpc[r] \in {"delete", "done"} /\ picked[r] # NoObj

C24_RenamedInSameDirectory ==
    \A r \in DOMAIN rpc :
        (Renamed(r) /\ ~opts.dontPreserveOutputDir) =>
            /\ \E o \in bucket : o.key = RenameKey
            /\ DirOf(RenameKey) = DirOf(PartKey(r))

(* C25: get_latest_file returns, over all pages of the listing, the .csv   *)
(* object with the greatest write time among the objects under the prefix, *)
(* and (None, None) when there is no such object; the incremental run uses *)
(* that file as its input and ends with the error that no candidate CSV    *)
(* file was found when there is none.                                       *)
C25_LatestCsvOrNone ==
    \A r \in DOMAIN rpc :
        rpc[r] # "start" =>
            IF seen[r] = {}
            THEN rin[r] = NoObj /\ rpc[r] = "failed" /\ rerr[r] = "NoCandidateCsv"
            ELSE /\ rin[r] \in seen[r]
                 /\ \A o \in seen[r] : o.mtime <= rin[r].mtime
                 /\ rerr[r] \notin {"ValueError", "NoCandidateCsv"}

(* C26: two incremental runs on the same output location are not kept      *)
(* apart by any lock, and when they are under way at the same time one of  *)
(* them can rename and delete the file the other wrote; a run takes a file *)
(* of another run for its own only when the two have overlapped.           *)
TookOthers(r) == picked[r].by \in (DOMAIN rpc) \ {r}

C26_OthersFileOnlyWhenOverlapped ==
    \A r \in DOMAIN rpc : TookOthers(r) => overlapped

C26_Witness ==
    \E r, q \in DOMAIN rpc :
        /\ r # q
        /\ rpc[r] = "done"
        /\ picked[r].key = PartKey(q)
        /\ picked[r].by = q
        /\ ~opts.keepOrigOnRename
        /\ \A o \in bucket : o.key # PartKey(q)
        /\ \E o \in bucket : o.key = PartKey(r) /\ o.by = r
        /\ rpc[q] = "failed"

(* C27: the rows an incremental run retains from the previous export are   *)
(* exactly the rows r of it with retention floor <= r.time < watermark,    *)
(* unmodified and in their order; every other row of the previous export   *)
(* is dropped, and the retained rows are written.                           *)
InWindow(r) == MicroGE(r.start_time, prelim_min_hour) /\ MicroLT(r.start_time, Watermark)

C27_RetainedExactlyTheWindow ==
    pc = "done" =>
        /\ csv_hits_in_range = SelectSeq(input_csv.rows, InWindow)
        /\ Range(csv_hits_in_range) \subseteq Range(write_df)

C27_Witness ==
    /\ pc = "done"
    /\ csv_hits_in_range # << >>
    /\ \E r \in Range(input_csv.rows) : ~InWindow(r)
    /\ MicroLT(prelim_min_hour, Watermark)

(* C28: athena_to_s3 of loadpartition.py hands back the result file only   *)
(* when SHOW PARTITIONS has SUCCEEDED and False for every other terminal   *)
(* state, and it gives up once the query has stayed QUEUED or RUNNING for  *)
(* the configured timeout of 30 seconds, so that the job always ends.      *)
C28_GivesUpWithinTimeout ==
    /\ (lpc = "read" => state = "SUCCEEDED" /\ show.state = "SUCCEEDED")
    /\ (lpc = "exit1" => state \in {"FAILED", "CANCELLED"})
    /\ (lpc = "polling" => waited <= LoadTimeout)

(* C29: loadpartition.py submits ALTER TABLE ... ADD PARTITION exactly     *)
(* when some hour-level folder of the selected data type is not among the  *)
(* partitions SHOW PARTITIONS listed; the query names exactly those        *)
(* folders; and with the storage unchanged, a run that lists the           *)
(* partitions after an earlier run's query has been applied submits none.  *)
Difference(entry) == S3List(s3parts, dataType) \ entry.athenaList

Issued(entry) == { Named(c) : c \in entry.issued }

C29_AlterExactlyTheDifference ==
    /\ \A i \in 1..Len(lplog) :
         /\ Issued(lplog[i]) = Difference(lplog[i])
         /\ alters[lplog[i].run].query =
                IF lplog[i].http = 200 THEN lplog[i].issued ELSE {}
         /\ (alters[lplog[i].run].state # "none") <=> (Difference(lplog[i]) # {}
                                                        /\ lplog[i].http = 200)
    /\ \A i, j \in 1..Len(lplog) :
         (i < j /\ Issued(lplog[i]) \subseteq lplog[j].athenaList)
             => lplog[j].issued = {}

C29_Witness ==
    /\ Len(lplog) = 2
    /\ Cardinality(lplog[1].issued) = 2
    /\ alters[lplog[1].run].state = "SUCCEEDED"
    /\ Issued(lplog[1]) \subseteq lplog[2].athenaList
    /\ lplog[2].issued = {}
    /\ alters[lplog[2].run].state = "none"
    /\ report = "SUCCESS"

(* C30: loadpartition.py empties the query-result folder and prints        *)
(* SUCCESS only after the ALTER TABLE it submitted has SUCCEEDED; an ALTER *)
(* that failed is never reported as SUCCESS.                                *)
C30_SuccessOnlyAfterAlterSucceeded ==
    (lpc = "done" /\ report = "SUCCESS" /\ alters[lprun].state # "none") =>
        alters[lprun].state = "SUCCEEDED"

====
